---- MODULE Spec2Model ----
(***************************************************************************)
(* Model of the client side of the DIG propagation protocol,               *)
(* src/src/DigNetwork/PropagationServer.ts: PropagationServer.uploadStore  *)
(* and PropagationServer.downloadStore, with the per-file workers          *)
(* uploadFile / downloadFile and the bounded-concurrency scheduler         *)
(* (asyncPool) that fans them out.                                         *)
(*                                                                         *)
(* One behaviour of the model is one run of uploadStore or downloadStore.  *)
(* Every await of the code is a position (pc for the run, taskPc for each  *)
(* worker); the peer, the signer, the file system and the streams are the  *)
(* environment and answer nondeterministically.                            *)
(***************************************************************************)
EXTENDS Integers, Sequences, FiniteSets, TLC

VARIABLES
    mode,           \* "upload" (uploadStore) or "download" (downloadStore)
    pc,             \* position of the run inside uploadStore / downloadStore
    localFiles,     \* upload: dataStore.getFileSetForRootHash(rootHash)
    datFileExists,  \* upload: STORE_PATH/storeId/rootHash.dat is on disk
    peerManifest,   \* download: root.files of the peer's rootHash.dat
    storeExists,    \* probe result, header x-store-exists
    rootHashExists, \* probe result, header x-has-root-hash
    username,       \* propagationServer.username
    password,       \* propagationServer.password
    sessionId,      \* propagationServer.sessionId
    tasks,          \* uploadTasks / downloadTasks handed to asyncPool
    taskPc,         \* position of each worker
    progStream,     \* each worker's progress stream: "none" before it is
                    \* created, "open", "ended", "released" once the worker
                    \* that holds it has returned
    taskLog,        \* per task: what the worker has issued so far
    calls,          \* per run: what the run has issued so far
    startAuth,      \* config.auth of the session-start request
    commitAuth      \* config.auth of the commit request

vars == <<mode, pc, localFiles, datFileExists, peerManifest, storeExists,
          rootHashExists, username, password, sessionId, tasks, taskPc,
          progStream, taskLog, calls, startAuth, commitAuth>>

(***************************************************************************)
(* Bounds of the model.                                                    *)
(***************************************************************************)
MaxUploadFiles == 4

MaxDownloadFiles == 6

(***************************************************************************)
(* Values.                                                                 *)
(***************************************************************************)
Undefined == "<undefined>"

NoAuth == <<"none">>

Unsent == <<"unsent">>

\* config.auth = { username, password }
BasicAuth(u, p) == <<"basic", u, p>>

\* What the credential prompt can hand back: two strings, either of which
\* may be empty (here: the password).
Usernames == {"alice"}

Passwords == {"", "secret"}

\* Session identifiers the peer issues.
SessionIds == {"s1"}

\* Truthiness of a value of type string | undefined.
Truthy(s) == s # Undefined /\ s # ""

\* PropagationServer.startUploadSession: config.auth is set only when
\* username and password are both truthy.
StartAuthConfig(u, p) == IF Truthy(u) /\ Truthy(p) THEN BasicAuth(u, p) ELSE NoAuth

\* PropagationServer.commitUploadSession: auth: username && password ? {..} : undefined
CommitAuthConfig(u, p) == IF Truthy(u) /\ Truthy(p) THEN BasicAuth(u, p) ELSE NoAuth

\* Variant: the upload limit adjusted upwards.
UploadConcurrencyLimitRaised == 3 + 1

\* uploadStore: const concurrencyLimit = 3
UploadConcurrencyLimit == 3

\* downloadStore: const concurrencyLimit = 5
DownloadConcurrencyLimit == 5

(***************************************************************************)
(* Inputs of a run.                                                        *)
(***************************************************************************)
\* A file of the local file set: { name, path }.
LocalFile(i) == [name |-> <<"name", i>>, path |-> <<"path", i>>]

\* The file sets getFileSetForRootHash can return: 0..MaxUploadFiles files.
UploadFileSets == {[i \in 1..m |-> LocalFile(i)] : m \in 0..MaxUploadFiles}

\* An entry of root.files: fileKey -> { sha256 }.
ManifestEntry(k, d) == [key |-> k, sha256 |-> d]

\* The manifests a peer can serve: the keys of a JSON object are distinct,
\* the digests need not be (two keys may name the same content).
DownloadManifests ==
    {[i \in 1..m |-> ManifestEntry(i, i)] : m \in 0..MaxDownloadFiles}
    \cup {[i \in 1..2 |-> ManifestEntry(i, 1)]}

\* Values of a boolean-valued response header.
BoolHeaders == {"true", "false", Undefined}

\* Values of the content-length response header: absent, or a string of
\* decimal digits (possibly the empty string).
NoHeader == [present |-> FALSE, digits |-> <<>>]

HeaderOf(ds) == [present |-> TRUE, digits |-> ds]

ContentLengthHeaders == {NoHeader, HeaderOf(<<0>>), HeaderOf(<<1, 0>>)}

Null == [kind |-> "null", value |-> 0]

NaN == [kind |-> "NaN", value |-> 0]

Number(n) == [kind |-> "number", value |-> n]

RECURSIVE DecimalValue(_)
DecimalValue(ds) ==
    IF ds = <<>> THEN 0
    ELSE 10 * DecimalValue(SubSeq(ds, 1, Len(ds) - 1)) + ds[Len(ds)]

\* parseInt(header, 10) on a string of digits.
ParseInt(ds) == IF ds = <<>> THEN NaN ELSE Number(DecimalValue(ds))

\* fetchFile / downloadFile:
\*   totalLength = totalLengthHeader ? parseInt(totalLengthHeader, 10) : null
TotalLength(h) == IF h.present /\ h.digits # <<>> THEN ParseInt(h.digits) ELSE Null

\* if (!totalLength) throw new Error("Content-Length header is missing")
TotalLengthRejected(h) ==
    LET totalLength == TotalLength(h)
    IN  totalLength.kind # "number" \/ totalLength.value = 0

\* getFilePathFromSha256(sha256, "data"): the content-store path is a
\* function of the digest alone.
GetFilePathFromSha256(d) == <<"data", d>>

\* Buffer.from(fileKey, "hex").toString("utf-8")
DecodeLabel(k) == <<"label", k>>

\* uploadStore: files.map((file) => ({ label: file.name, dataPath: file.path }))
UploadTasksOf(files) ==
    [i \in 1..Len(files) |-> [label |-> files[i].name, dataPath |-> files[i].path]]

\* downloadStore: one task per entry of root.files
DownloadTasksOf(manifest) ==
    [i \in 1..Len(manifest) |->
        [label |-> DecodeLabel(manifest[i].key),
         dataPath |-> GetFilePathFromSha256(manifest[i].sha256)]]

\* No nonce received, no nonce or signature sent.
NoNonce == <<"none">>

\* No request issued yet, hence no session id in its URL.
NoUrl == "<no request>"

\* The x-nonce header of the peer's answer to the nonce request for a file:
\* a challenge of its own for every file of the session.
PeerNonce(dataPath) == <<"nonce", dataPath>>

\* wallet.createKeyOwnershipSignature(nonce): a signature over that nonce.
Sign(nonce) == <<"sig", nonce>>

NewTaskLog ==
    [started |-> 0, nonce |-> 0, sig |-> 0, put |-> 0, get |-> 0,
     barStart |-> 0, barStop |-> 0, write |-> 0,
     nonceSession |-> NoUrl, nonceGot |-> NoNonce,
     putSession |-> NoUrl, putNonce |-> NoNonce, putSig |-> NoNonce]

NewCalls ==
    [walletInit |-> 0, probe |-> 0, prompt |-> 0, start |-> 0, commit |-> 0,
     manifestGet |-> 0, manifestBarStart |-> 0, manifestBarStop |-> 0,
     manifestSave |-> 0, regen |-> 0,
     startFailed |-> 0, sessionWrites |-> 0, commitSession |-> NoUrl,
     declaredRejected |-> 0]

\* commitUploadSession: POST /commit/{storeId}/{sessionId}
CommitPosted(c, sid) == [c EXCEPT !.commit = @ + 1, !.commitSession = sid]

\* `if (!totalLength) throw new Error("Content-Length header is missing")`:
\* the run remembers whether the rejected response did carry the header.
DeclaredLengthRejected(c, h) ==
    IF h.present THEN [c EXCEPT !.declaredRejected = 1] ELSE c

Bump(rec, f) == [rec EXCEPT ![f] = @ + 1]

(***************************************************************************)
(* The state after `new PropagationServer(ipAddress, storeId)`.            *)
(***************************************************************************)
Init ==
    /\ mode \in {"upload", "download"}
    /\ pc = "init"
    /\ localFiles \in (IF mode = "upload" THEN UploadFileSets ELSE {<<>>})
    /\ datFileExists \in (IF mode = "upload" THEN BOOLEAN ELSE {FALSE})
    /\ peerManifest \in (IF mode = "download" THEN DownloadManifests ELSE {<<>>})
    /\ storeExists = FALSE
    /\ rootHashExists = FALSE
    /\ username = Undefined
    /\ password = Undefined
    /\ sessionId = ""
    /\ tasks = <<>>
    /\ taskPc = <<>>
    /\ progStream = <<>>
    /\ taskLog = <<>>
    /\ calls = NewCalls
    /\ startAuth = Unsent
    /\ commitAuth = Unsent

inputVars == <<mode, localFiles, datFileExists, peerManifest>>

taskVars == <<tasks, taskPc, progStream, taskLog>>

credVars == <<username, password>>

authVars == <<startAuth, commitAuth>>

probeVars == <<storeExists, rootHashExists>>

(***************************************************************************)
(* TransferScheduler (asyncPool).                                          *)
(***************************************************************************)
Terminal == {"skipped", "done", "failed"}

Tasks == DOMAIN taskPc

\* Transfers that have started and have not reached a terminal outcome.
InFlight == {i \in Tasks : taskPc[i] \notin Terminal \cup {"queued"}}

Queued == {i \in Tasks : taskPc[i] = "queued"}

\* Tasks leave the queue in input order.
NextQueued == CHOOSE i \in Queued : \A j \in Queued : i <= j

\* A worker is started only while fewer than `limit` are running.
PoolCanStart(limit) == Queued # {} /\ Cardinality(InFlight) < limit

\* Variant: the pool rejects as soon as one worker has failed, while its
\* siblings are still running.
PoolSettledOnFirstFailure ==
    \/ \A i \in Tasks : taskPc[i] \in Terminal
    \/ \E i \in Tasks : taskPc[i] = "failed"

\* The pool settles once every task has reached a terminal outcome.
PoolSettled == \A i \in Tasks : taskPc[i] \in Terminal

\* It rejects when a task failed.
PoolRejected == \E i \in Tasks : taskPc[i] = "failed"

(***************************************************************************)
(* Steps shared by uploadStore and downloadStore.                          *)
(***************************************************************************)
\* await propagationServer.initializeWallet(); then checkStoreExists issues
\* the HEAD request of the probe.
InitializeWallet ==
    /\ pc = "init"
    /\ \E ok \in BOOLEAN :
        IF ok
        THEN /\ calls' = Bump(Bump(calls, "walletInit"), "probe")
             /\ pc' = "probe"
        ELSE /\ calls' = Bump(calls, "walletInit")
             /\ pc' = "aborted"
    /\ UNCHANGED <<inputVars, probeVars, credVars, sessionId, taskVars, authVars>>

\* x-store-exists / x-has-root-hash: header === "true"
HeaderIsTrue(h) == h = "true"

\* Variant: the prompt is not conditioned on the probe.
PromptAlways(se) == TRUE

\* if (!storeExists) ... promptCredentials
PromptNeeded(se) == ~se

(***************************************************************************)
(* uploadStore.                                                            *)
(***************************************************************************)
\* The probe returns (or throws); when the store does not exist the
\* credential prompt is invoked.
UploadProbeResponse ==
    /\ mode = "upload"
    /\ pc = "probe"
    /\ \/ /\ pc' = "aborted"
          /\ UNCHANGED <<probeVars, calls>>
       \/ \E hs \in BoolHeaders, hr \in BoolHeaders :
            /\ storeExists' = HeaderIsTrue(hs)
            /\ rootHashExists' = HeaderIsTrue(hr)
            /\ IF PromptNeeded(HeaderIsTrue(hs))
               THEN /\ calls' = Bump(calls, "prompt")
                    /\ pc' = "prompt"
               ELSE /\ calls' = calls
                    /\ pc' = "probed"
    /\ UNCHANGED <<inputVars, credVars, sessionId, taskVars, authVars>>

\* promptCredentials resolves; the pair is stored on the instance.
PromptReturns ==
    /\ mode = "upload"
    /\ pc = "prompt"
    /\ \E u \in Usernames, p \in Passwords :
        /\ username' = u
        /\ password' = p
    /\ pc' = "probed"
    /\ UNCHANGED <<inputVars, probeVars, sessionId, taskVars, calls, authVars>>

\* if (rootHashExists) return
SkipUpload ==
    /\ mode = "upload"
    /\ pc = "probed"
    /\ rootHashExists
    /\ pc' = "noop"
    /\ UNCHANGED <<inputVars, probeVars, credVars, sessionId, taskVars, calls, authVars>>

\* Variant: rootHash.dat is posted without checking that it exists.
StartUploadSessionUnchecked ==
    /\ mode = "upload"
    /\ pc = "probed"
    /\ ~rootHashExists
    /\ calls' = Bump(calls, "start")
    /\ startAuth' = StartAuthConfig(username, password)
    /\ pc' = "starting"
    /\ UNCHANGED <<inputVars, probeVars, credVars, sessionId, taskVars, commitAuth>>

\* Variant: the session is started without looking at rootHashExists.
StartUploadSessionUnguarded ==
    /\ mode = "upload"
    /\ pc = "probed"
    /\ IF ~datFileExists
       THEN /\ pc' = "aborted"
            /\ calls' = Bump(calls, "startFailed")
            /\ UNCHANGED startAuth
       ELSE /\ calls' = Bump(calls, "start")
            /\ startAuth' = StartAuthConfig(username, password)
            /\ pc' = "starting"
    /\ UNCHANGED <<inputVars, probeVars, credVars, sessionId, taskVars, commitAuth>>

\* startUploadSession up to axios.post: throws without a request when
\* rootHash.dat is missing, else posts it, with Basic auth when present.
StartUploadSession ==
    /\ mode = "upload"
    /\ pc = "probed"
    /\ ~rootHashExists
    /\ IF ~datFileExists
       THEN /\ pc' = "aborted"
            /\ calls' = Bump(calls, "startFailed")
            /\ UNCHANGED startAuth
       ELSE /\ calls' = Bump(calls, "start")
            /\ startAuth' = StartAuthConfig(username, password)
            /\ pc' = "starting"
    /\ UNCHANGED <<inputVars, probeVars, credVars, sessionId, taskVars, commitAuth>>

\* Variant: the session id of the response is not stored on the instance.
StartSessionResponseUnstored ==
    /\ mode = "upload"
    /\ pc = "starting"
    /\ \/ /\ pc' = "aborted"
          /\ calls' = Bump(calls, "startFailed")
          /\ UNCHANGED <<sessionId, taskVars>>
       \/ /\ sessionId' = sessionId
          /\ calls' = calls
          /\ tasks' = UploadTasksOf(localFiles)
          /\ taskPc' = [i \in 1..Len(localFiles) |-> "queued"]
          /\ progStream' = [i \in 1..Len(localFiles) |-> "none"]
          /\ taskLog' = [i \in 1..Len(localFiles) |-> NewTaskLog]
          /\ pc' = "uploading"
    /\ UNCHANGED <<inputVars, probeVars, credVars, authVars>>

\* The session-start response: this.sessionId = response.data.sessionId,
\* then the file set is expanded into uploadTasks and handed to asyncPool.
StartSessionResponse ==
    /\ mode = "upload"
    /\ pc = "starting"
    /\ \/ /\ pc' = "aborted"
          /\ calls' = Bump(calls, "startFailed")
          /\ UNCHANGED <<sessionId, taskVars>>
       \/ \E sid \in SessionIds :
            /\ sessionId' = sid
            /\ calls' = Bump(calls, "sessionWrites")
            /\ tasks' = UploadTasksOf(localFiles)
            /\ taskPc' = [i \in 1..Len(localFiles) |-> "queued"]
            /\ progStream' = [i \in 1..Len(localFiles) |-> "none"]
            /\ taskLog' = [i \in 1..Len(localFiles) |-> NewTaskLog]
            /\ pc' = "uploading"
    /\ UNCHANGED <<inputVars, probeVars, credVars, authVars>>

\* asyncPool starts the next worker: uploadFile calls getFileNonce, which
\* issues the HEAD request for the nonce.
UploadTaskStart ==
    /\ mode = "upload"
    /\ pc = "uploading"
    /\ PoolCanStart(UploadConcurrencyLimit)
    /\ LET i == NextQueued
       IN  /\ taskPc' = [taskPc EXCEPT ![i] = "nonce"]
           /\ taskLog' = [taskLog EXCEPT ![i] =
                 [Bump(Bump(@, "started"), "nonce") EXCEPT !.nonceSession = sessionId]]
    /\ UNCHANGED <<inputVars, probeVars, credVars, sessionId, tasks, progStream,
                   pc, calls, authVars>>

\* uploadFile after the wallet has signed `nonce`: the bar is started and
\* the PUT is issued to /upload/{storeId}/{sessionId}/{dataPath} with the
\* headers x-nonce and x-key-ownership-sig.
PutIssued(log, nonce, sid) ==
    [Bump(Bump(Bump(log, "sig"), "barStart"), "put") EXCEPT
        !.nonceGot = nonce, !.putNonce = nonce, !.putSig = Sign(nonce),
        !.putSession = sid]

\* Variant: the nonce is kept in a field shared by the workers, so the PUT
\* carries whichever nonce was stored last.
NonceResponseSharedNonce(i) ==
    /\ mode = "upload"
    /\ taskPc[i] = "nonce"
    /\ \/ /\ taskPc' = [taskPc EXCEPT ![i] = "failed"]
          /\ UNCHANGED <<progStream, taskLog>>
       \/ \E h \in BoolHeaders :
            IF HeaderIsTrue(h)
            THEN /\ taskPc' = [taskPc EXCEPT ![i] = "skipped"]
                 /\ UNCHANGED <<progStream, taskLog>>
            ELSE \E signed \in BOOLEAN, statOk \in BOOLEAN :
                 IF signed /\ statOk
                 THEN /\ taskPc' = [taskPc EXCEPT ![i] = "put"]
                      /\ progStream' = [progStream EXCEPT ![i] = "open"]
                      /\ \E j \in Tasks :
                            /\ j = i \/ taskLog[j].nonceGot # NoNonce
                            /\ taskLog' = [taskLog EXCEPT ![i] =
                                 [PutIssued(@, PeerNonce(tasks[j].dataPath), sessionId)
                                    EXCEPT !.nonceGot = PeerNonce(tasks[i].dataPath)]]
                 ELSE /\ taskPc' = [taskPc EXCEPT ![i] = "failed"]
                      /\ progStream' = progStream
                      /\ taskLog' = [taskLog EXCEPT ![i] =
                            [Bump(@, "sig") EXCEPT
                                !.nonceGot = PeerNonce(tasks[i].dataPath)]]
    /\ UNCHANGED <<inputVars, probeVars, credVars, sessionId, tasks, pc, calls,
                   authVars>>

\* Variant: fileExists is looked at only after the wallet has signed.
NonceResponseSignsFirst(i) ==
    /\ mode = "upload"
    /\ taskPc[i] = "nonce"
    /\ \/ /\ taskPc' = [taskPc EXCEPT ![i] = "failed"]
          /\ UNCHANGED <<progStream, taskLog>>
       \/ \E h \in BoolHeaders, signed \in BOOLEAN, statOk \in BOOLEAN :
            IF ~signed
            THEN /\ taskPc' = [taskPc EXCEPT ![i] = "failed"]
                 /\ progStream' = progStream
                 /\ taskLog' = [taskLog EXCEPT ![i] = Bump(@, "sig")]
            ELSE IF HeaderIsTrue(h)
            THEN /\ taskPc' = [taskPc EXCEPT ![i] = "skipped"]
                 /\ progStream' = progStream
                 /\ taskLog' = [taskLog EXCEPT ![i] = Bump(@, "sig")]
            ELSE IF statOk
            THEN /\ taskPc' = [taskPc EXCEPT ![i] = "put"]
                 /\ progStream' = [progStream EXCEPT ![i] = "open"]
                 /\ taskLog' = [taskLog EXCEPT ![i] =
                       Bump(Bump(Bump(@, "sig"), "barStart"), "put")]
            ELSE /\ taskPc' = [taskPc EXCEPT ![i] = "failed"]
                 /\ progStream' = progStream
                 /\ taskLog' = [taskLog EXCEPT ![i] = Bump(@, "sig")]
    /\ UNCHANGED <<inputVars, probeVars, credVars, sessionId, tasks, pc, calls,
                   authVars>>

\* getFileNonce returns { nonce, fileExists } or throws.  An existing file
\* ends the worker.  Otherwise the wallet is asked for the signature and
\* the public key and fs.statSync for the size (each may throw); then the
\* progress bar is started and the PUT is issued with the file piped
\* through the progress stream.
NonceResponse(i) ==
    /\ mode = "upload"
    /\ taskPc[i] = "nonce"
    /\ \/ /\ taskPc' = [taskPc EXCEPT ![i] = "failed"]
          /\ UNCHANGED <<progStream, taskLog>>
       \/ \E h \in BoolHeaders :
            IF HeaderIsTrue(h)
            THEN /\ taskPc' = [taskPc EXCEPT ![i] = "skipped"]
                 /\ UNCHANGED <<progStream, taskLog>>
            ELSE \E signed \in BOOLEAN, statOk \in BOOLEAN :
                 IF signed /\ statOk
                 THEN /\ taskPc' = [taskPc EXCEPT ![i] = "put"]
                      /\ progStream' = [progStream EXCEPT ![i] = "open"]
                      /\ taskLog' = [taskLog EXCEPT ![i] =
                            PutIssued(@, PeerNonce(tasks[i].dataPath), sessionId)]
                 ELSE /\ taskPc' = [taskPc EXCEPT ![i] = "failed"]
                      /\ progStream' = progStream
                      /\ taskLog' = [taskLog EXCEPT ![i] =
                            [Bump(@, "sig") EXCEPT
                                !.nonceGot = PeerNonce(tasks[i].dataPath)]]
    /\ UNCHANGED <<inputVars, probeVars, credVars, sessionId, tasks, pc, calls,
                   authVars>>

\* Variant: a failed PUT is issued again.
PutResponseRetrying(i) ==
    /\ mode = "upload"
    /\ taskPc[i] = "put"
    /\ \E ok \in BOOLEAN :
        IF ok
        THEN /\ taskPc' = [taskPc EXCEPT ![i] = "wait"]
             /\ UNCHANGED <<progStream, taskLog>>
        ELSE /\ taskPc' = taskPc
             /\ progStream' = progStream
             /\ taskLog' = [taskLog EXCEPT ![i] = Bump(@, "put")]
    /\ UNCHANGED <<inputVars, probeVars, credVars, sessionId, tasks, pc, calls,
                   authVars>>

\* axios.put returns or throws.  On success the worker attaches its "end"
\* and "error" listeners to the progress stream and waits; on failure the
\* finally block stops the bar.
PutResponse(i) ==
    /\ mode = "upload"
    /\ taskPc[i] = "put"
    /\ \E ok \in BOOLEAN :
        IF ok
        THEN /\ taskPc' = [taskPc EXCEPT ![i] = "wait"]
             /\ UNCHANGED <<progStream, taskLog>>
        ELSE /\ taskPc' = [taskPc EXCEPT ![i] = "failed"]
             /\ progStream' = [progStream EXCEPT ![i] = "released"]
             /\ taskLog' = [taskLog EXCEPT ![i] = Bump(@, "barStop")]
    /\ UNCHANGED <<inputVars, probeVars, credVars, sessionId, tasks, pc, calls,
                   authVars>>

\* The progress stream emits "end".  A worker that is already waiting for
\* it finishes; an "end" emitted while the PUT is still pending has no
\* listener.
UploadProgressEnd(i) ==
    /\ mode = "upload"
    /\ progStream[i] = "open"
    /\ taskPc[i] \in {"put", "wait"}
    /\ IF taskPc[i] = "wait"
       THEN /\ taskPc' = [taskPc EXCEPT ![i] = "done"]
            /\ progStream' = [progStream EXCEPT ![i] = "released"]
            /\ taskLog' = [taskLog EXCEPT ![i] = Bump(@, "barStop")]
       ELSE /\ progStream' = [progStream EXCEPT ![i] = "ended"]
            /\ UNCHANGED <<taskPc, taskLog>>
    /\ UNCHANGED <<inputVars, probeVars, credVars, sessionId, tasks, pc, calls,
                   authVars>>

\* The progress stream emits "error" while the worker waits for it.
UploadProgressError(i) ==
    /\ mode = "upload"
    /\ progStream[i] = "open"
    /\ taskPc[i] = "wait"
    /\ progStream' = [progStream EXCEPT ![i] = "released"]
    /\ taskPc' = [taskPc EXCEPT ![i] = "failed"]
    /\ taskLog' = [taskLog EXCEPT ![i] = Bump(@, "barStop")]
    /\ UNCHANGED <<inputVars, probeVars, credVars, sessionId, tasks, pc, calls,
                   authVars>>

\* Variant: a worker's failure is swallowed and the commit is posted anyway.
UploadPoolReturnsUnchecked ==
    /\ mode = "upload"
    /\ pc = "uploading"
    /\ PoolSettled
    /\ calls' = CommitPosted(calls, sessionId)
    /\ commitAuth' = CommitAuthConfig(username, password)
    /\ pc' = "committing"
    /\ UNCHANGED <<inputVars, probeVars, credVars, sessionId, taskVars, startAuth>>

\* Variant: asyncPool is not awaited, the commit is posted while workers
\* are still running.
UploadPoolReturnsEarly ==
    /\ mode = "upload"
    /\ pc = "uploading"
    /\ IF PoolRejected
       THEN /\ pc' = "aborted"
            /\ UNCHANGED <<calls, commitAuth>>
       ELSE /\ calls' = CommitPosted(calls, sessionId)
            /\ commitAuth' = CommitAuthConfig(username, password)
            /\ pc' = "committing"
    /\ UNCHANGED <<inputVars, probeVars, credVars, sessionId, taskVars, startAuth>>

\* await asyncPool(...) is over: a rejection leaves uploadStore, otherwise
\* commitUploadSession posts the commit, with Basic auth when present.
UploadPoolReturns ==
    /\ mode = "upload"
    /\ pc = "uploading"
    /\ PoolSettled
    /\ IF PoolRejected
       THEN /\ pc' = "aborted"
            /\ UNCHANGED <<calls, commitAuth>>
       ELSE /\ calls' = CommitPosted(calls, sessionId)
            /\ commitAuth' = CommitAuthConfig(username, password)
            /\ pc' = "committing"
    /\ UNCHANGED <<inputVars, probeVars, credVars, sessionId, taskVars, startAuth>>

\* The commit response.
CommitResponse ==
    /\ mode = "upload"
    /\ pc = "committing"
    /\ \E ok \in BOOLEAN : pc' = IF ok THEN "committed" ELSE "aborted"
    /\ UNCHANGED <<inputVars, probeVars, credVars, sessionId, taskVars, calls,
                   authVars>>

(***************************************************************************)
(* downloadStore.                                                          *)
(***************************************************************************)
\* Variant: only the store is required, not the root hash.
DownloadRefusedStoreOnly(se, rhe) == ~se

\* if (!storeExists || !rootHashExists) throw
DownloadRefused(se, rhe) == ~se \/ ~rhe

\* The probe returns (or throws); unless the peer has both the store and
\* the root hash the run throws, else fetchFile issues the manifest GET.
DownloadProbeResponse ==
    /\ mode = "download"
    /\ pc = "probe"
    /\ \/ /\ pc' = "aborted"
          /\ UNCHANGED <<probeVars, calls>>
       \/ \E hs \in BoolHeaders, hr \in BoolHeaders :
            /\ storeExists' = HeaderIsTrue(hs)
            /\ rootHashExists' = HeaderIsTrue(hr)
            /\ IF DownloadRefused(HeaderIsTrue(hs), HeaderIsTrue(hr))
               THEN /\ pc' = "aborted"
                    /\ calls' = calls
               ELSE /\ pc' = "fetchManifest"
                    /\ calls' = Bump(calls, "manifestGet")
    /\ UNCHANGED <<inputVars, credVars, sessionId, taskVars, authVars>>

\* fetchFile: the GET returns or throws; a falsy totalLength throws before
\* the progress bar and the progress stream exist.
ManifestResponse ==
    /\ mode = "download"
    /\ pc = "fetchManifest"
    /\ \/ /\ pc' = "aborted"
          /\ calls' = calls
       \/ \E h \in ContentLengthHeaders :
            IF TotalLengthRejected(h)
            THEN /\ pc' = "aborted"
                 /\ calls' = DeclaredLengthRejected(calls, h)
            ELSE /\ pc' = "manifestStreaming"
                 /\ calls' = Bump(calls, "manifestBarStart")
    /\ UNCHANGED <<inputVars, probeVars, credVars, sessionId, taskVars, authVars>>

\* The manifest stream ends: the bar is stopped, the buffer is parsed
\* (JSON.parse may throw) and one task per entry of root.files is handed to
\* asyncPool.
ManifestStreamEnd ==
    /\ mode = "download"
    /\ pc = "manifestStreaming"
    /\ calls' = Bump(calls, "manifestBarStop")
    /\ \E parsed \in BOOLEAN :
        IF parsed
        THEN /\ tasks' = DownloadTasksOf(peerManifest)
             /\ taskPc' = [i \in 1..Len(peerManifest) |-> "queued"]
             /\ progStream' = [i \in 1..Len(peerManifest) |-> "none"]
             /\ taskLog' = [i \in 1..Len(peerManifest) |-> NewTaskLog]
             /\ pc' = "downloading"
        ELSE /\ pc' = "aborted"
             /\ UNCHANGED taskVars
    /\ UNCHANGED <<inputVars, probeVars, credVars, sessionId, authVars>>

\* The manifest stream emits "error".
ManifestStreamError ==
    /\ mode = "download"
    /\ pc = "manifestStreaming"
    /\ calls' = Bump(calls, "manifestBarStop")
    /\ pc' = "aborted"
    /\ UNCHANGED <<inputVars, probeVars, credVars, sessionId, taskVars, authVars>>

\* asyncPool starts the next worker: downloadFile creates the directory
\* and issues the GET.
DownloadTaskStart ==
    /\ mode = "download"
    /\ pc = "downloading"
    /\ PoolCanStart(DownloadConcurrencyLimit)
    /\ LET i == NextQueued
       IN  /\ taskPc' = [taskPc EXCEPT ![i] = "get"]
           /\ taskLog' = [taskLog EXCEPT ![i] = Bump(Bump(@, "started"), "get")]
    /\ UNCHANGED <<inputVars, probeVars, credVars, sessionId, tasks, progStream,
                   pc, calls, authVars>>

\* The GET returns or throws; a falsy totalLength throws, otherwise the
\* bar is started, the write stream is opened on downloadPath and the
\* response is piped through the progress stream into it.
GetResponse(i) ==
    /\ mode = "download"
    /\ taskPc[i] = "get"
    /\ \/ /\ taskPc' = [taskPc EXCEPT ![i] = "failed"]
          /\ UNCHANGED <<progStream, taskLog, calls>>
       \/ \E h \in ContentLengthHeaders :
            IF TotalLengthRejected(h)
            THEN /\ taskPc' = [taskPc EXCEPT ![i] = "failed"]
                 /\ calls' = DeclaredLengthRejected(calls, h)
                 /\ UNCHANGED <<progStream, taskLog>>
            ELSE /\ taskPc' = [taskPc EXCEPT ![i] = "streaming"]
                 /\ progStream' = [progStream EXCEPT ![i] = "open"]
                 /\ taskLog' = [taskLog EXCEPT ![i] = Bump(Bump(@, "barStart"), "write")]
                 /\ calls' = calls
    /\ UNCHANGED <<inputVars, probeVars, credVars, sessionId, tasks, pc, authVars>>

\* The progress stream has emitted "end" and the write stream "finish":
\* both promises of Promise.all are resolved, the finally block stops the
\* bar.
DownloadStreamDone(i) ==
    /\ mode = "download"
    /\ taskPc[i] = "streaming"
    /\ taskPc' = [taskPc EXCEPT ![i] = "done"]
    /\ progStream' = [progStream EXCEPT ![i] = "released"]
    /\ taskLog' = [taskLog EXCEPT ![i] = Bump(@, "barStop")]
    /\ UNCHANGED <<inputVars, probeVars, credVars, sessionId, tasks, pc, calls,
                   authVars>>

\* The progress stream or the write stream emits "error".
DownloadStreamError(i) ==
    /\ mode = "download"
    /\ taskPc[i] = "streaming"
    /\ taskPc' = [taskPc EXCEPT ![i] = "failed"]
    /\ progStream' = [progStream EXCEPT ![i] = "released"]
    /\ taskLog' = [taskLog EXCEPT ![i] = Bump(@, "barStop")]
    /\ UNCHANGED <<inputVars, probeVars, credVars, sessionId, tasks, pc, calls,
                   authVars>>

\* Variant: a worker's failure is swallowed and the download is finalized.
DownloadPoolReturnsUnchecked ==
    /\ mode = "download"
    /\ pc = "downloading"
    /\ PoolSettled
    /\ \E written \in BOOLEAN :
        IF written
        THEN /\ calls' = Bump(Bump(calls, "manifestSave"), "regen")
             /\ pc' = "regenerating"
        ELSE /\ calls' = calls
             /\ pc' = "aborted"
    /\ UNCHANGED <<inputVars, probeVars, credVars, sessionId, taskVars, authVars>>

\* Variant: asyncPool is not awaited, the manifest is written while
\* workers are still running.
DownloadPoolReturnsEarly ==
    /\ mode = "download"
    /\ pc = "downloading"
    /\ IF PoolRejected
       THEN /\ pc' = "aborted"
            /\ calls' = calls
       ELSE \E written \in BOOLEAN :
            IF written
            THEN /\ calls' = Bump(Bump(calls, "manifestSave"), "regen")
                 /\ pc' = "regenerating"
            ELSE /\ calls' = calls
                 /\ pc' = "aborted"
    /\ UNCHANGED <<inputVars, probeVars, credVars, sessionId, taskVars, authVars>>

\* await asyncPool(...) is over: a rejection leaves downloadStore,
\* otherwise rootHash.dat is written (writeFileSync may throw) and
\* generateManifestFile is invoked.
DownloadPoolReturns ==
    /\ mode = "download"
    /\ pc = "downloading"
    /\ PoolSettled
    /\ IF PoolRejected
       THEN /\ pc' = "aborted"
            /\ calls' = calls
       ELSE \E written \in BOOLEAN :
            IF written
            THEN /\ calls' = Bump(Bump(calls, "manifestSave"), "regen")
                 /\ pc' = "regenerating"
            ELSE /\ calls' = calls
                 /\ pc' = "aborted"
    /\ UNCHANGED <<inputVars, probeVars, credVars, sessionId, taskVars, authVars>>

\* generateManifestFile returns or throws.
RegenReturns ==
    /\ mode = "download"
    /\ pc = "regenerating"
    /\ \E ok \in BOOLEAN : pc' = IF ok THEN "finalized" ELSE "aborted"
    /\ UNCHANGED <<inputVars, probeVars, credVars, sessionId, taskVars, calls,
                   authVars>>

(***************************************************************************)
(* Specification.                                                          *)
(***************************************************************************)
Next ==
    \/ InitializeWallet
    \/ UploadProbeResponse
    \/ PromptReturns
    \/ SkipUpload
    \/ StartUploadSession
    \/ StartSessionResponse
    \/ UploadTaskStart
    \/ \E i \in Tasks : NonceResponse(i)
    \/ \E i \in Tasks : PutResponse(i)
    \/ \E i \in Tasks : UploadProgressEnd(i)
    \/ \E i \in Tasks : UploadProgressError(i)
    \/ UploadPoolReturns
    \/ CommitResponse
    \/ DownloadProbeResponse
    \/ ManifestResponse
    \/ ManifestStreamEnd
    \/ ManifestStreamError
    \/ DownloadTaskStart
    \/ \E i \in Tasks : GetResponse(i)
    \/ \E i \in Tasks : DownloadStreamDone(i)
    \/ \E i \in Tasks : DownloadStreamError(i)
    \/ DownloadPoolReturns
    \/ RegenReturns

Spec == Init /\ [][Next]_vars

(***************************************************************************)
(* Properties.                                                             *)
(***************************************************************************)
Upload == mode = "upload"

Download == mode = "download"

\* The fan-out of an upload run is behind it: asyncPool has returned.
UploadFanOutOver == Upload /\ sessionId # "" /\ pc # "uploading"

\* C1. All-or-nothing commit: in a run of uploadStore in which an upload
\* task has failed (its nonce request, the signing or its PUT), the commit
\* request is not issued: no commit has been posted and the run is not at
\* or past the commit.
AllOrNothingCommit ==
    (Upload /\ \E i \in Tasks : taskPc[i] = "failed")
        => /\ calls.commit = 0
           /\ commitAuth = Unsent
           /\ pc \in {"uploading", "aborted"}

\* A run that ended with one file uploaded, another failed, nothing committed.
AllOrNothingCommitWitness ==
    /\ Upload
    /\ pc = "aborted"
    /\ \E i \in Tasks : taskPc[i] = "failed"
    /\ \E i \in Tasks : taskPc[i] = "done"
    /\ calls.commit = 0

\* C2. Concurrency bound: the number of file transfers that have started
\* and have not reached a terminal outcome never exceeds 3 in an upload and
\* 5 in a download, whatever the number of files.
ConcurrencyBound ==
    /\ Upload => Cardinality(InFlight) <= 3
    /\ Download => Cardinality(InFlight) <= 5

\* The limit is reached while more files are still queued.
ConcurrencyBoundWitness ==
    /\ Queued # {}
    /\ \/ Upload /\ Cardinality(InFlight) = 3
       \/ Download /\ Cardinality(InFlight) = 5

\* C3. When every upload task succeeds: one task per file of the manifest
\* is scheduled and each is started at most once; the commit is posted at
\* most once, only when every task has been started once and has completed
\* (skipped as already present, or its one PUT returned success); and once
\* the fan-out is over with no task failed, it has been posted exactly once.
CommitOnceAfterAllTasks ==
    Upload =>
        /\ calls.commit <= 1
        /\ sessionId # "" =>
            /\ Len(tasks) = Len(localFiles)
            /\ \A i \in Tasks :
                /\ tasks[i] = [label |-> localFiles[i].name,
                               dataPath |-> localFiles[i].path]
                /\ taskLog[i].started <= 1
                /\ taskPc[i] = "done" => taskLog[i].put = 1
        /\ calls.commit >= 1 =>
            \A i \in Tasks :
                /\ taskLog[i].started = 1
                /\ taskPc[i] \in {"skipped", "done"}
        /\ (UploadFanOutOver /\ ~PoolRejected) => calls.commit = 1

\* The two-file scenario: both PUTs succeeded, then the commit.
CommitOnceAfterAllTasksWitness ==
    /\ Upload
    /\ pc = "committed"
    /\ Len(tasks) = 2
    /\ \A i \in Tasks : taskPc[i] = "done" /\ taskLog[i].put = 1
    /\ calls.commit = 1

\* C4. Skip-if-already-replicated: once the probe has reported
\* rootHashExists = true, uploadStore starts no session, issues no nonce
\* request, no PUT and no commit, and can only end as the successful no-op.
SkipIfAlreadyReplicated ==
    (Upload /\ rootHashExists) =>
        /\ calls.start = 0
        /\ startAuth = Unsent
        /\ sessionId = ""
        /\ tasks = <<>>
        /\ taskLog = <<>>
        /\ calls.commit = 0
        /\ pc \in {"prompt", "probed", "noop"}

\* The run has ended as the no-op.
SkipIfAlreadyReplicatedWitness ==
    /\ Upload
    /\ rootHashExists
    /\ pc = "noop"
    /\ calls.probe = 1

\* C5. Credentialed creation: when the probe reports that the store does
\* not exist and the upload proceeds, the prompt has been invoked exactly
\* once before the session-start request, and that request and the commit
\* request carry the prompted pair as Basic auth, whatever the pair is.
CredentialedCreation ==
    (Upload /\ ~storeExists) =>
        /\ calls.start >= 1 =>
            /\ calls.prompt = 1
            /\ startAuth = BasicAuth(username, password)
        /\ calls.commit >= 1 => commitAuth = BasicAuth(username, password)

\* C6. The prompt is invoked only when the probe reports storeExists =
\* false: a download never prompts; an upload whose probe reported
\* storeExists = true never prompts, holds no credentials and sends neither
\* the session-start nor the commit request with Basic auth.
PromptOnlyForUnknownStore ==
    /\ calls.prompt >= 1 => (Upload /\ ~storeExists)
    /\ Download => (username = Undefined /\ password = Undefined)
    /\ (Upload /\ storeExists) =>
        /\ calls.prompt = 0
        /\ username = Undefined /\ password = Undefined
        /\ startAuth \in {Unsent, NoAuth}
        /\ commitAuth \in {Unsent, NoAuth}

\* An upload to an existing store committed without prompt and without auth.
PromptOnlyForUnknownStoreWitness ==
    /\ Upload
    /\ storeExists
    /\ pc = "committed"
    /\ calls.prompt = 0
    /\ startAuth = NoAuth
    /\ commitAuth = NoAuth

\* C7. Idempotent skip: a task whose nonce request reported the file as
\* already present has completed with exactly that one request, no
\* signature requested, no progress bar and no PUT; and a run whose tasks
\* were all skipped or uploaded posts the commit.
IdempotentSkip ==
    Upload =>
        /\ \A i \in Tasks :
            taskPc[i] = "skipped" =>
                /\ taskLog[i].nonce = 1
                /\ taskLog[i].sig = 0
                /\ taskLog[i].put = 0
                /\ taskLog[i].barStart = 0
                /\ progStream[i] = "none"
        /\ (UploadFanOutOver /\ \A i \in Tasks : taskPc[i] \in {"skipped", "done"})
               => calls.commit = 1

\* A committed run with a skipped file next to an uploaded one.
IdempotentSkipWitness ==
    /\ Upload
    /\ pc = "committed"
    /\ \E i \in Tasks : taskPc[i] = "skipped"
    /\ \E i \in Tasks : taskPc[i] = "done"

\* C8. downloadStore requires both storeExists and rootHashExists: once
\* the probe has answered with either of them false the run has failed,
\* with no manifest fetch, no file task, no manifest written and no
\* regeneration.
DownloadRequiresStoreAndRootHash ==
    (Download /\ pc \notin {"init", "probe"} /\ (~storeExists \/ ~rootHashExists)) =>
        /\ pc = "aborted"
        /\ calls.manifestGet = 0
        /\ tasks = <<>>
        /\ taskLog = <<>>
        /\ calls.manifestSave = 0
        /\ calls.regen = 0

\* The store exists on the peer, the root hash does not: the run failed.
DownloadRequiresStoreAndRootHashWitness ==
    /\ Download
    /\ storeExists
    /\ ~rootHashExists
    /\ pc = "aborted"
    /\ calls.probe = 1

\* C9. Download finalize is all-or-nothing: in a run of downloadStore in
\* which a file download task has failed, rootHash.dat is not written and
\* manifest regeneration is not invoked.
DownloadAllOrNothing ==
    (Download /\ \E i \in Tasks : taskPc[i] = "failed") =>
        /\ calls.manifestSave = 0
        /\ calls.regen = 0
        /\ pc \in {"downloading", "aborted"}

\* A run that ended with one file downloaded, another failed, no manifest.
DownloadAllOrNothingWitness ==
    /\ Download
    /\ pc = "aborted"
    /\ \E i \in Tasks : taskPc[i] = "failed"
    /\ \E i \in Tasks : taskPc[i] = "done"
    /\ calls.manifestSave = 0

\* C10. Download ordering: a file fetch is issued only after the manifest
\* fetch has completed and the manifest has been parsed into the tasks; the
\* manifest is written, and regeneration invoked after it, only when every
\* file task of the manifest has completed successfully.
DownloadOrdering ==
    Download =>
        /\ (\E i \in Tasks : taskLog[i].get >= 1) =>
            /\ calls.manifestGet = 1
            /\ calls.manifestBarStop = 1
            /\ tasks = DownloadTasksOf(peerManifest)
            /\ pc \notin {"init", "probe", "fetchManifest", "manifestStreaming"}
        /\ (pc \in {"init", "probe", "fetchManifest", "manifestStreaming"}) =>
            tasks = <<>>
        /\ calls.regen <= calls.manifestSave
        /\ calls.manifestSave >= 1 =>
            /\ Len(tasks) = Len(peerManifest)
            /\ \A i \in Tasks : taskPc[i] = "done" /\ taskLog[i].get = 1

\* A finalized download of several files.
DownloadOrderingWitness ==
    /\ Download
    /\ pc = "finalized"
    /\ Len(tasks) >= 2
    /\ \A i \in Tasks : taskPc[i] = "done"
    /\ calls.manifestSave = 1
    /\ calls.regen = 1


NoAutomaticRetry ==
    /\ calls.probe <= 1
    /\ calls.start <= 1
    /\ calls.commit <= 1
    /\ calls.manifestGet <= 1
    /\ \A i \in Tasks :
        /\ taskLog[i].started <= 1
        /\ taskLog[i].nonce <= 1
        /\ taskLog[i].put <= 1
        /\ taskLog[i].get <= 1

\* An upload that ended after a PUT failed: that PUT was issued once.
NoAutomaticRetryWitness ==
    /\ Upload
    /\ pc = "aborted"
    /\ calls.start = 1
    /\ \E i \in Tasks :
        /\ taskPc[i] = "failed"
        /\ taskLog[i].nonce = 1
        /\ taskLog[i].put = 1


\* The outcomes of uploadStore: Committed, the already-replicated no-op,
\* Aborted.
UploadOutcomes == {"committed", "noop", "aborted"}

\* C13. Upload termination: a run of uploadStore that has not reached an
\* outcome can always take a further step (a pending request returns, a
\* stream event arrives, a worker starts or the pool returns), so that
\* under fair scheduling it reaches Committed, the no-op or Aborted; in
\* particular a worker whose PUT has returned success can still complete.
UploadCanAlwaysProceed ==
    Upload => (pc \in UploadOutcomes \/ ENABLED Next)


\* C14. Per-file nonce binding: a PUT is issued only after the nonce
\* request of the same file has returned, it carries exactly the nonce that
\* request returned and a signature over that nonce, and never the nonce or
\* the signature obtained for another file of the session.
NonceBinding ==
    Upload =>
        \A i \in Tasks :
            taskLog[i].put >= 1 =>
                /\ taskLog[i].nonce = 1
                /\ taskLog[i].nonceGot = PeerNonce(tasks[i].dataPath)
                /\ taskLog[i].putNonce = taskLog[i].nonceGot
                /\ taskLog[i].putSig = Sign(taskLog[i].putNonce)
                /\ \A j \in Tasks :
                    j # i =>
                        /\ taskLog[i].putNonce # PeerNonce(tasks[j].dataPath)
                        /\ taskLog[i].putSig # Sign(PeerNonce(tasks[j].dataPath))

\* Three uploads with their PUTs pending at the same time.
NonceBindingWitness ==
    /\ Upload
    /\ Cardinality({i \in Tasks : taskPc[i] = "put" /\ taskLog[i].put = 1}) = 3


\* C15. The sessionId of the instance is written exactly once per upload
\* run, by the session-start response, and keeps that value; every nonce
\* request, every PUT and the commit request are issued after that, with
\* the server-issued sessionId in their URL and never the initial "".
SessionIdWrittenOnce ==
    Upload =>
        /\ calls.sessionWrites <= 1
        /\ calls.sessionWrites = 0 <=> sessionId = ""
        /\ calls.sessionWrites = 1 =>
            /\ sessionId \in SessionIds
            /\ calls.start = 1
            /\ pc \notin {"init", "probe", "prompt", "probed", "starting"}
        /\ \A i \in Tasks :
            /\ taskLog[i].nonce >= 1 =>
                (taskLog[i].nonceSession = sessionId /\ sessionId # "")
            /\ taskLog[i].put >= 1 =>
                (taskLog[i].putSession = sessionId /\ sessionId # "")
        /\ calls.commit >= 1 =>
            (calls.commitSession = sessionId /\ sessionId # "")

\* A committed run: nonce request, PUT and commit carried the session id.
SessionIdWrittenOnceWitness ==
    /\ Upload
    /\ pc = "committed"
    /\ calls.sessionWrites = 1
    /\ calls.commitSession = sessionId
    /\ \E i \in Tasks : taskLog[i].put = 1 /\ taskLog[i].putSession = sessionId

\* C16. Session-start failure is fatal: with rootHash.dat missing locally
\* no session-start request is sent; and once startUploadSession has
\* thrown (file missing, or the peer rejected the request) sessionId is
\* still the initial "", no worker exists (no nonce request, no PUT), no
\* commit is posted and uploadStore has failed.
SessionStartFailureIsFatal ==
    Upload =>
        /\ ~datFileExists => (calls.start = 0 /\ startAuth = Unsent)
        /\ calls.startFailed >= 1 =>
            /\ pc = "aborted"
            /\ sessionId = ""
            /\ calls.sessionWrites = 0
            /\ tasks = <<>>
            /\ taskLog = <<>>
            /\ calls.commit = 0

\* The run threw in startUploadSession because rootHash.dat is missing.
SessionStartFailureIsFatalWitness ==
    /\ Upload
    /\ ~datFileExists
    /\ calls.startFailed = 1
    /\ calls.probe = 1
    /\ pc = "aborted"


\* C17. A fetch response without a content-length header fails the fetch
\* before any body byte is consumed (a failed download opened no write
\* stream and started no progress bar unless its length was accepted; an
\* aborted manifest fetch leaves no file task scheduled), and a response
\* that declares a content-length, 0 included, is never rejected as
\* missing.
MissingContentLengthFailsFetch ==
    Download =>
        /\ TotalLengthRejected(NoHeader)
        /\ \A i \in Tasks :
            (taskPc[i] = "failed" /\ taskLog[i].barStart = 0) =>
                (taskLog[i].write = 0 /\ progStream[i] = "none")
        /\ (pc = "aborted" /\ calls.manifestGet = 1 /\ calls.manifestBarStart = 0) =>
            tasks = <<>>
        /\ calls.declaredRejected = 0


\* C18. Download tasks are independent: no two download tasks that are in
\* flight at the same time write to the same local destination path, for
\* every manifest, one with two keys of the same sha256 digest included.
IndependentDestinations ==
    Download =>
        \A i, j \in Tasks :
            (i # j /\ taskPc[i] = "streaming" /\ taskPc[j] = "streaming") =>
                tasks[i].dataPath # tasks[j].dataPath

\* C19. When the probe reports rootHashExists = true the upload
\* short-circuits at the probed state: promptCredentials is not invoked
\* and no credentials are stored, whatever the probe says of storeExists.
ShortCircuitBeforePrompt ==
    (Upload /\ calls.probe = 1 /\ pc # "probe" /\ rootHashExists) =>
        /\ calls.prompt = 0
        /\ pc # "prompt"
        /\ username = Undefined
        /\ password = Undefined

\* C20. The progress sink is purely observational: once the peer has
\* answered a file's PUT with success, no event of the progress stream can
\* turn the task into a failure (two runs with the same peer responses end
\* alike); and a task that has ended has stopped every progress bar it
\* started exactly once.
ProgressSinkIsObservational ==
    [][\A i \in Tasks :
          /\ (Upload /\ taskPc[i] = "wait" /\ i \in DOMAIN taskPc') =>
                taskPc'[i] \in {"wait", "done"}
          /\ taskPc[i] \in Terminal => taskLog[i].barStop = taskLog[i].barStart
      ]_vars

====
